---- MODULE Spec2Model ----
(***************************************************************************)
(* Lights HAL of android_device_xiaomi_onc (light/Light.h, light/Light.cpp) *)
(* as a state machine: the backend table with its cached states, the       *)
(* global lock, the callers of setLight and getSupportedTypes, the render  *)
(* handlers and the sysfs reads and writes they issue.                     *)
(*                                                                         *)
(* The repository holds two bodies of setLight and getSupportedTypes: the  *)
(* out-of-class ones of Light.cpp and the in-class ones of Light.h.  Which *)
(* one a build runs is the variable impl, fixed at construction.           *)
(***************************************************************************)
EXTENDS Integers, Sequences, FiniteSets, TLC

VARIABLES
    impl,       \* "cpp": the bodies of Light.cpp; "inline": the bodies of Light.h
    backends,   \* Light::backends, a sequence of [type, state, handler]
    globalLock, \* Light::globalLock: 0 when free, else the thread holding it
    pc,         \* per thread: its position in the call it is making
    args,       \* per thread: the (type, state) arguments of its setLight call
    handler,    \* per thread: setLight's local `handler`
    old,        \* per thread: the cached state its setLight call overwrote
    pending,    \* per thread: handler invocations still to be made
    cur,        \* per thread: the state the running handler was invoked with
    wq,         \* per thread: writeFile calls the running handler still makes
    calls,      \* per thread: handler invocations made by the call so far
    reads,      \* per thread: readFile calls of the call so far
    writes,     \* per thread: writeFile calls of the call so far
    ret,        \* per thread: the Status the call returns
    types,      \* per thread: getSupportedTypes' local vector `types`
    rendered,   \* the state handleNotification was last invoked with, <<>> before any
    breath,     \* the content of /sys/class/leds/red/breath
    conv        \* the last brightness conversion made (SpecConv only)

vars == <<impl, backends, globalLock, pc, args, handler, old, pending, cur, wq,
          calls, reads, writes, ret, types, rendered, breath, conv>>

---------------------------------------------------------------------------
(* Bounds *)

\* Number of concurrently calling binder threads (SpecConc).
NumThreads == 2

Threads == 1..NumThreads

---------------------------------------------------------------------------
(* Light.cpp:29-36, the sysfs layout *)

LCD_LED == "/sys/class/leds/lcd-backlight/"
WHITE_LED == "/sys/class/leds/red/"
BREATH == "breath"
BRIGHTNESS == "brightness"
DELAY_OFF == "delay_off"
DELAY_ON == "delay_on"
MAX_BRIGHTNESS == "max_brightness"

---------------------------------------------------------------------------
(* Values *)

\* Type values that have a backend (Light.h:82-87), and some that have none.
ConfiguredTypes == {"ATTENTION", "NOTIFICATIONS", "BATTERY", "BACKLIGHT"}
UnconfiguredTypes == {"KEYBOARD", "BUTTONS"}
AllTypes == ConfiguredTypes \cup UnconfiguredTypes

\* A 32-bit ARGB word, held as its four bytes (the model checker's integers
\* are 32-bit signed): a = bits 31..24, r = 23..16, g = 15..8, b = 7..0.
ARGB(a, r, g, b) == [a |-> a, r |-> r, g |-> g, b |-> b]

LightState(color, flashMode, flashOnMs, flashOffMs) ==
    [color |-> color, flashMode |-> flashMode,
     flashOnMs |-> flashOnMs, flashOffMs |-> flashOffMs]

\* LightBackend's constructor: state{0xff000000}, the other fields zero.
InitialState == LightState(ARGB(255, 0, 0, 0), "NONE", 0, 0)

\* The states callers pass: off (steady and timed), opaque green, blinking
\* opaque red, and white with alpha 0.
OffSteady == LightState(ARGB(255, 0, 0, 0), "NONE", 0, 0)
OffTimed == LightState(ARGB(255, 0, 0, 0), "TIMED", 2, 1)
GreenSteady == LightState(ARGB(255, 0, 255, 0), "NONE", 0, 0)
RedTimed == LightState(ARGB(255, 255, 0, 0), "TIMED", 2, 1)
ClearWhite == LightState(ARGB(0, 255, 255, 255), "NONE", 0, 0)
LightStates == {OffSteady, OffTimed, GreenSteady, RedTimed, ClearWhite}

\* std::optional<int>
Nullopt == [has |-> FALSE, value |-> 0]
Some(v) == [has |-> TRUE, value |-> v]

\* What a read of max_brightness can give: the file does not open, or the
\* LED's value.
MaxResults == {Nullopt, Some(255)}

---------------------------------------------------------------------------
(* Brightness conversion, Light.cpp:73-94.  All values are uint32_t; with  *)
(* channels below 256 and max_brightness below 2^16 no product reaches     *)
(* 2^31, so none wraps.                                                    *)

\* getBrightness with the premultiplication done as a shift (alpha >> 8 for
\* alpha / 0xFF).
getBrightnessShifted(state) ==
    LET alpha == state.color.a
        r == IF alpha # 255 THEN (state.color.r * alpha) \div 256 ELSE state.color.r
        g == IF alpha # 255 THEN (state.color.g * alpha) \div 256 ELSE state.color.g
        b == IF alpha # 255 THEN (state.color.b * alpha) \div 256 ELSE state.color.b
    IN  (77 * r + 150 * g + 29 * b) \div 256

\* The luma rounded to nearest instead of truncated by the shift.
getBrightnessRounded(state) ==
    LET alpha == state.color.a
        r == IF alpha # 255 THEN (state.color.r * alpha) \div 255 ELSE state.color.r
        g == IF alpha # 255 THEN (state.color.g * alpha) \div 255 ELSE state.color.g
        b == IF alpha # 255 THEN (state.color.b * alpha) \div 255 ELSE state.color.b
    IN  (77 * r + 150 * g + 29 * b + 128) \div 256

getBrightness(state) ==
    LET alpha == state.color.a
        red == state.color.r
        green == state.color.g
        blue == state.color.b
        r == IF alpha # 255 THEN (red * alpha) \div 255 ELSE red
        g == IF alpha # 255 THEN (green * alpha) \div 255 ELSE green
        b == IF alpha # 255 THEN (blue * alpha) \div 255 ELSE blue
    IN  (77 * r + 150 * g + 29 * b) \div 256

scaleBrightness(brightness, maxBrightness) ==
    (brightness * maxBrightness) \div 255

getScaledBrightness(state, maxBrightness) ==
    scaleBrightness(getBrightness(state), maxBrightness)

\* state.color & 0x00ffffff
isLit(state) == state.color.r # 0 \/ state.color.g # 0 \/ state.color.b # 0

---------------------------------------------------------------------------
(* Render handlers, Light.cpp:96-118: the writeFile calls each makes, in   *)
(* order, given what getMaxBrightness returned.                            *)

Write(led, attr, value) == [led |-> led, attr |-> attr, value |-> value]

\* handleBacklight writing although max_brightness gave no value (value_or(0)).
handleBacklightWritesUnchecked(state, maxBrightnessOpt) ==
    <<Write(LCD_LED, BRIGHTNESS, getScaledBrightness(state, maxBrightnessOpt.value))>>

handleBacklightWrites(state, maxBrightnessOpt) ==
    IF maxBrightnessOpt.has
    THEN <<Write(LCD_LED, BRIGHTNESS,
                 getScaledBrightness(state, maxBrightnessOpt.value))>>
    ELSE <<>>

\* handleNotification writing delay_on before delay_off.
handleNotificationWritesSwapped(state, maxBrightnessOpt) ==
    IF maxBrightnessOpt.has
    THEN <<Write(WHITE_LED, BREATH, 0)>> \o
         (IF state.flashMode = "TIMED"
          THEN <<Write(WHITE_LED, DELAY_ON, state.flashOnMs),
                 Write(WHITE_LED, DELAY_OFF, state.flashOffMs),
                 Write(WHITE_LED, BREATH, 1)>>
          ELSE <<Write(WHITE_LED, BRIGHTNESS,
                       getScaledBrightness(state, maxBrightnessOpt.value))>>)
    ELSE <<>>

\* handleNotification disabling blink only on the TIMED path.
handleNotificationWritesNoDisable(state, maxBrightnessOpt) ==
    IF maxBrightnessOpt.has
    THEN IF state.flashMode = "TIMED"
         THEN <<Write(WHITE_LED, BREATH, 0),
                Write(WHITE_LED, DELAY_OFF, state.flashOffMs),
                Write(WHITE_LED, DELAY_ON, state.flashOnMs),
                Write(WHITE_LED, BREATH, 1)>>
         ELSE <<Write(WHITE_LED, BRIGHTNESS,
                      getScaledBrightness(state, maxBrightnessOpt.value))>>
    ELSE <<>>

handleNotificationWrites(state, maxBrightnessOpt) ==
    IF maxBrightnessOpt.has
    THEN <<Write(WHITE_LED, BREATH, 0)>> \o
         (IF state.flashMode = "TIMED"
          THEN <<Write(WHITE_LED, DELAY_OFF, state.flashOffMs),
                 Write(WHITE_LED, DELAY_ON, state.flashOnMs),
                 Write(WHITE_LED, BREATH, 1)>>
          ELSE <<Write(WHITE_LED, BRIGHTNESS,
                       getScaledBrightness(state, maxBrightnessOpt.value))>>)
    ELSE <<>>

HandlerLed(h) == IF h = "handleBacklight" THEN LCD_LED ELSE WHITE_LED

HandlerWrites(h, state, maxBrightnessOpt) ==
    IF h = "handleBacklight"
    THEN handleBacklightWrites(state, maxBrightnessOpt)
    ELSE handleNotificationWrites(state, maxBrightnessOpt)

---------------------------------------------------------------------------
(* Light.h:82-87, the backend table in construction order *)

Backend(type, h) == [type |-> type, state |-> InitialState, handler |-> h]

InitialBackends ==
    << Backend("ATTENTION", "handleNotification"),
       Backend("NOTIFICATIONS", "handleNotification"),
       Backend("BATTERY", "handleNotification"),
       Backend("BACKLIGHT", "handleBacklight") >>

\* Thread-local values before a call and after its result is consumed.
NoArgs == [type |-> "NONE", state |-> InitialState]
NoConv == [color |-> 0, maxBrightness |-> 0, done |-> FALSE, luma |-> 0, scaled |-> 0]

InitLight ==
    /\ impl \in {"cpp", "inline"}
    /\ backends = InitialBackends
    /\ globalLock = 0
    /\ pc = [t \in Threads |-> "idle"]
    /\ args = [t \in Threads |-> NoArgs]
    /\ handler = [t \in Threads |-> "nullptr"]
    /\ old = [t \in Threads |-> InitialState]
    /\ pending = [t \in Threads |-> <<>>]
    /\ cur = [t \in Threads |-> InitialState]
    /\ wq = [t \in Threads |-> <<>>]
    /\ calls = [t \in Threads |-> <<>>]
    /\ reads = [t \in Threads |-> <<>>]
    /\ writes = [t \in Threads |-> <<>>]
    /\ ret = [t \in Threads |-> "NONE"]
    /\ types = [t \in Threads |-> <<>>]
    /\ rendered = <<>>
    /\ breath \in {0, 1}

Init == InitLight /\ conv = NoConv

---------------------------------------------------------------------------
(* setLight *)

\* A caller enters setLight(type, state) and blocks on the lock_guard.
SetLightCall(t, type, state) ==
    /\ pc[t] = "idle"
    /\ pc' = [pc EXCEPT ![t] = "lock"]
    /\ args' = [args EXCEPT ![t] = [type |-> type, state |-> state]]
    /\ UNCHANGED <<impl, backends, globalLock, handler, old, pending, cur, wq,
                   calls, reads, writes, ret, types, rendered, breath, conv>>

\* std::lock_guard<std::mutex> lock(globalLock), in setLight (both bodies)
\* and in Light.cpp's getSupportedTypes.
AcquireLock(t) ==
    /\ pc[t] \in {"lock", "g_lock"}
    /\ globalLock = 0
    /\ globalLock' = t
    /\ pc' = [pc EXCEPT ![t] = IF pc[t] = "lock" THEN "body" ELSE "g_push"]
    /\ UNCHANGED <<impl, backends, args, handler, old, pending, cur, wq,
                   calls, reads, writes, ret, types, rendered, breath, conv>>

\* The update matching on the handler of `type` instead of on the type.
UpdateBackendsByHandler(b, type, state) ==
    LET hs == {b[i].handler : i \in {j \in DOMAIN b : b[j].type = type}}
    IN  [i \in DOMAIN b |->
            IF b[i].handler \in hs THEN [b[i] EXCEPT !.state = state] ELSE b[i]]

\* Light.cpp:140-145: every backend of `type` takes `state`.
UpdateBackends(b, type, state) ==
    [i \in DOMAIN b |-> IF b[i].type = type THEN [b[i] EXCEPT !.state = state] ELSE b[i]]

\* The state the matching backend held before Light.cpp:142 / Light.h:61
\* assigned over it (the initial state when no backend matches).
Overwritten(b, type) ==
    LET hit == {i \in DOMAIN b : b[i].type = type}
    IN  IF hit = {} THEN InitialState ELSE b[CHOOSE i \in hit : TRUE].state

\* The lookup falling back to the notification handler instead of nullptr.
FindHandlerDefault(b, type) ==
    LET hit == {i \in DOMAIN b : b[i].type = type}
    IN  IF hit = {} THEN "handleNotification"
        ELSE b[CHOOSE i \in hit : \A j \in hit : j <= i].handler

\* Light.cpp:140-145: `handler` ends as the handler of the last backend of
\* `type`, or stays nullptr.
FindHandler(b, type) ==
    LET hit == {i \in DOMAIN b : b[i].type = type}
    IN  IF hit = {} THEN "nullptr"
        ELSE b[CHOOSE i \in hit : \A j \in hit : j <= i].handler

\* The scan without its break and without `handled`: every lit backend
\* sharing the handler is rendered, then `state`.
ResolveCallsNoBreak(b, h, state) ==
    LET lit == SelectSeq(b, LAMBDA e : e.handler = h /\ isLit(e.state))
    IN  [i \in 1..Len(lit) |-> lit[i].state] \o <<state>>

\* Light.cpp:152-164: the handler invocations of one call, as the states
\* passed: the first lit backend sharing the handler (the loop breaks
\* there), or `state` itself when the loop handled nothing.
\* A priority scan over every backend, whichever handler it has.
ResolveCallsAnyHandler(b, h, state) ==
    LET lit == SelectSeq(b, LAMBDA e : isLit(e.state))
    IN  IF lit # <<>> THEN <<lit[1].state>> ELSE <<state>>

ResolveCalls(b, h, state) ==
    LET lit == SelectSeq(b, LAMBDA e : e.handler = h /\ isLit(e.state))
    IN  IF lit # <<>> THEN <<lit[1].state>> ELSE <<state>>

\* Where a call goes once a handler has read max_brightness or written.
AfterHandler(q, p) ==
    IF q # <<>> THEN "write" ELSE IF p # <<>> THEN "invoke" ELSE "return"

\* Light.cpp:139-164 up to the handler's entry: update the cache, return
\* LIGHT_NOT_SUPPORTED when no backend matched, otherwise resolve.
SetLight(t) ==
    /\ pc[t] = "body"
    /\ impl = "cpp"
    /\ LET type == args[t].type
           state == args[t].state
           b == UpdateBackends(backends, type, state)
           h == FindHandler(backends, type)
       IN  /\ backends' = b
           /\ handler' = [handler EXCEPT ![t] = h]
           /\ old' = [old EXCEPT ![t] = Overwritten(backends, type)]
           /\ IF h = "nullptr"
              THEN /\ ret' = [ret EXCEPT ![t] = "LIGHT_NOT_SUPPORTED"]
                   /\ pc' = [pc EXCEPT ![t] = "ret"]
                   /\ UNCHANGED pending
              ELSE /\ pending' = [pending EXCEPT ![t] = ResolveCalls(b, h, state)]
                   /\ pc' = [pc EXCEPT ![t] = "invoke"]
                   /\ UNCHANGED ret
    /\ UNCHANGED <<impl, globalLock, args, cur, wq, calls, reads, writes,
                   types, rendered, breath, conv>>

\* Light.h:59-65: the first backend of `type` takes `state`.
InlineUpdateBackends(b, type, state) ==
    LET hit == {i \in DOMAIN b : b[i].type = type}
        first == CHOOSE i \in hit : \A j \in hit : i <= j
    IN  IF hit = {} THEN b
        ELSE [i \in DOMAIN b |-> IF i = first THEN [b[i] EXCEPT !.state = state] ELSE b[i]]

\* Light.h:59-65: the handler of the first backend of `type`.
InlineFindHandler(b, type) ==
    LET hit == {i \in DOMAIN b : b[i].type = type}
    IN  IF hit = {} THEN "nullptr"
        ELSE b[CHOOSE i \in hit : \A j \in hit : i <= j].handler

\* Light.h:59-68 up to the handler's entry: the matching backend takes the
\* state and its handler is invoked with that same state.
InlineSetLight(t) ==
    /\ pc[t] = "body"
    /\ impl = "inline"
    /\ LET type == args[t].type
           state == args[t].state
           h == InlineFindHandler(backends, type)
       IN  /\ backends' = InlineUpdateBackends(backends, type, state)
           /\ handler' = [handler EXCEPT ![t] = h]
           /\ old' = [old EXCEPT ![t] = Overwritten(backends, type)]
           /\ IF h = "nullptr"
              THEN /\ ret' = [ret EXCEPT ![t] = "LIGHT_NOT_SUPPORTED"]
                   /\ pc' = [pc EXCEPT ![t] = "ret"]
                   /\ UNCHANGED pending
              ELSE /\ pending' = [pending EXCEPT ![t] = <<state>>]
                   /\ pc' = [pc EXCEPT ![t] = "invoke"]
                   /\ UNCHANGED ret
    /\ UNCHANGED <<impl, globalLock, args, cur, wq, calls, reads, writes,
                   types, rendered, breath, conv>>

\* A handler that writes nothing when the call left its type's cached state
\* as it was.
HandlerReadSkipUnchanged(t, r) ==
    /\ pc[t] = "invoke"
    /\ pending[t] # <<>>
    /\ LET state == Head(pending[t])
           q == IF old[t] = args[t].state THEN <<>>
                ELSE HandlerWrites(handler[t], state, r)
       IN  /\ cur' = [cur EXCEPT ![t] = state]
           /\ pending' = [pending EXCEPT ![t] = Tail(pending[t])]
           /\ calls' = [calls EXCEPT ![t] =
                  Append(calls[t], [handler |-> handler[t], state |-> state])]
           /\ reads' = [reads EXCEPT ![t] =
                  Append(reads[t], [led |-> HandlerLed(handler[t]),
                                    attr |-> MAX_BRIGHTNESS, result |-> r])]
           /\ wq' = [wq EXCEPT ![t] = q]
           /\ pc' = [pc EXCEPT ![t] = AfterHandler(q, Tail(pending[t]))]
           /\ rendered' = IF handler[t] = "handleNotification" THEN <<state>> ELSE rendered
    /\ UNCHANGED <<impl, backends, globalLock, args, handler, old, writes, ret,
                   types, breath, conv>>

\* Light.cpp:97 and 105: a handler is entered with the next state and reads
\* its LED's max_brightness; r is what readFile returns.
HandlerRead(t, r) ==
    /\ pc[t] = "invoke"
    /\ pending[t] # <<>>
    /\ LET state == Head(pending[t])
           q == HandlerWrites(handler[t], state, r)
       IN  /\ cur' = [cur EXCEPT ![t] = state]
           /\ pending' = [pending EXCEPT ![t] = Tail(pending[t])]
           /\ calls' = [calls EXCEPT ![t] =
                  Append(calls[t], [handler |-> handler[t], state |-> state])]
           /\ reads' = [reads EXCEPT ![t] =
                  Append(reads[t], [led |-> HandlerLed(handler[t]),
                                    attr |-> MAX_BRIGHTNESS, result |-> r])]
           /\ wq' = [wq EXCEPT ![t] = q]
           /\ pc' = [pc EXCEPT ![t] = AfterHandler(q, Tail(pending[t]))]
           /\ rendered' = IF handler[t] = "handleNotification" THEN <<state>> ELSE rendered
    /\ UNCHANGED <<impl, backends, globalLock, args, handler, old, writes, ret,
                   types, breath, conv>>

\* A handler that gives up at the first writeFile that fails.
RestAfterWriteAbort(q, ok) == IF ok THEN Tail(q) ELSE <<>>

\* Light.cpp:100, 108-115: the handlers ignore writeFile's result, so the
\* writes after a failed one are still made.
RestAfterWrite(q, ok) == Tail(q)

\* Light.cpp:39-46: what the breath file holds after writeFile(w): the
\* value written when the file is the breath file and it opened.
FileAfterWrite(content, w, ok) ==
    IF ok /\ w.led = WHITE_LED /\ w.attr = BREATH THEN w.value ELSE content

\* Light.cpp:38-47: one writeFile call; ok is whether the file opened.
HandlerWrite(t, ok) ==
    /\ pc[t] = "write"
    /\ wq[t] # <<>>
    /\ LET w == Head(wq[t])
           q == RestAfterWrite(wq[t], ok)
       IN  /\ writes' = [writes EXCEPT ![t] =
                  Append(writes[t], [led |-> w.led, attr |-> w.attr,
                                     value |-> w.value, ok |-> ok])]
           /\ wq' = [wq EXCEPT ![t] = q]
           /\ pc' = [pc EXCEPT ![t] = AfterHandler(q, pending[t])]
           /\ breath' = FileAfterWrite(breath, w, ok)
    /\ UNCHANGED <<impl, backends, globalLock, args, handler, old, pending, cur,
                   calls, reads, ret, types, rendered, conv>>

\* Light.cpp:166, Light.h:63: return Status::SUCCESS; the return value is
\* made while the lock_guard still holds the lock.
SetLightReturn(t) ==
    /\ pc[t] = "return"
    /\ ret' = [ret EXCEPT ![t] = "SUCCESS"]
    /\ pc' = [pc EXCEPT ![t] = "ret"]
    /\ UNCHANGED <<impl, backends, globalLock, args, handler, old, pending, cur, wq,
                   calls, reads, writes, types, rendered, breath, conv>>

---------------------------------------------------------------------------
(* getSupportedTypes *)

\* A caller enters getSupportedTypes: Light.cpp's body takes the lock
\* (Light.cpp:173), Light.h's body (Light.h:71-78) does not.
GetSupportedTypesCall(t) ==
    /\ pc[t] = "idle"
    /\ pc' = [pc EXCEPT ![t] = IF impl = "cpp" THEN "g_lock" ELSE "g_push"]
    /\ UNCHANGED <<impl, backends, globalLock, args, handler, old, pending, cur,
                   wq, calls, reads, writes, ret, types, rendered, breath, conv>>

\* The loop walking the table from its end.
PushTypeReversed(v, b) == Append(v, b[Len(b) - Len(v)].type)

\* Light.cpp:176-178, Light.h:73-75: one iteration of the loop.
PushType(v, b) == Append(v, b[Len(v) + 1].type)

GetSupportedTypesPush(t) ==
    /\ pc[t] = "g_push"
    /\ Len(types[t]) < Len(backends)
    /\ types' = [types EXCEPT ![t] = PushType(types[t], backends)]
    /\ UNCHANGED <<impl, backends, globalLock, pc, args, handler, old, pending,
                   cur, wq, calls, reads, writes, ret, rendered, breath, conv>>

\* Light.cpp:181-183, Light.h:76-77: the callback gets `types`, in
\* Light.cpp with the lock still held.
GetSupportedTypesReturn(t) ==
    /\ pc[t] = "g_push"
    /\ Len(types[t]) = Len(backends)
    /\ pc' = [pc EXCEPT ![t] = "g_ret"]
    /\ UNCHANGED <<impl, backends, globalLock, args, handler, old, pending, cur, wq,
                   calls, reads, writes, ret, types, rendered, breath, conv>>

\* The call ends: its lock_guard, if it has one, unlocks (Light.cpp:167 and
\* 184, Light.h:69), its frame is gone and the caller has the result.
Complete(t) ==
    /\ pc[t] \in {"ret", "g_ret"}
    /\ pc' = [pc EXCEPT ![t] = "idle"]
    /\ args' = [args EXCEPT ![t] = NoArgs]
    /\ handler' = [handler EXCEPT ![t] = "nullptr"]
    /\ old' = [old EXCEPT ![t] = InitialState]
    /\ pending' = [pending EXCEPT ![t] = <<>>]
    /\ cur' = [cur EXCEPT ![t] = InitialState]
    /\ wq' = [wq EXCEPT ![t] = <<>>]
    /\ calls' = [calls EXCEPT ![t] = <<>>]
    /\ reads' = [reads EXCEPT ![t] = <<>>]
    /\ writes' = [writes EXCEPT ![t] = <<>>]
    /\ ret' = [ret EXCEPT ![t] = "NONE"]
    /\ types' = [types EXCEPT ![t] = <<>>]
    /\ globalLock' = IF globalLock = t THEN 0 ELSE globalLock
    /\ UNCHANGED <<impl, backends, rendered, breath, conv>>

---------------------------------------------------------------------------
(* Specifications *)

Step(t, T, S, R, W) ==
    \/ \E type \in T, state \in S : SetLightCall(t, type, state)
    \/ AcquireLock(t)
    \/ SetLight(t)
    \/ InlineSetLight(t)
    \/ \E r \in R : HandlerRead(t, r)
    \/ \E ok \in W : HandlerWrite(t, ok)
    \/ SetLightReturn(t)
    \/ GetSupportedTypesCall(t)
    \/ GetSupportedTypesPush(t)
    \/ GetSupportedTypesReturn(t)
    \/ Complete(t)

\* One caller at a time, every input.
Next == Step(1, AllTypes, LightStates, MaxResults, BOOLEAN)

Spec == Init /\ [][Next]_vars

\* The brightness conversion alone: Light.cpp:92-94 applied to a colour and a
\* max_brightness drawn from samples of their ranges.
AlphaSamples == {0, 1, 128, 254, 255}
ChannelSamples == {0, 1, 128, 254, 255}
MaxBrightnessSamples == {0, 1, 100, 255, 4095, 65535}

InitConv ==
    /\ InitLight
    /\ \E a \in AlphaSamples, r \in ChannelSamples, g \in ChannelSamples,
          b \in ChannelSamples, m \in MaxBrightnessSamples :
          conv = [color |-> ARGB(a, r, g, b), maxBrightness |-> m,
                  done |-> FALSE, luma |-> 0, scaled |-> 0]

Convert ==
    /\ ~conv.done
    /\ LET state == LightState(conv.color, "NONE", 0, 0)
       IN  conv' = [conv EXCEPT !.done = TRUE,
                                !.luma = getBrightness(state),
                                !.scaled = getScaledBrightness(state, conv.maxBrightness)]
    /\ UNCHANGED <<impl, backends, globalLock, pc, args, handler, old, pending,
                   cur, wq, calls, reads, writes, ret, types, rendered,
                   breath>>

SpecConv == InitConv /\ [][Convert]_vars

\* Concurrent callers, fewer inputs, every device file available.
ConcTypes == {"ATTENTION", "NOTIFICATIONS", "KEYBOARD"}
ConcStates == {OffSteady, GreenSteady, RedTimed}

NextConc == \E t \in Threads : Step(t, ConcTypes, ConcStates, {Some(255)}, {TRUE})

SpecConc == Init /\ [][NextConc]_vars

---------------------------------------------------------------------------
(* Properties *)

\* The setLight call of thread t has made its return value and not yet ended.
Returned(t) == pc[t] = "ret"

HasBackend(type) == \E i \in DOMAIN backends : backends[i].type = type

\* Backend i shares handler h and its cached state is lit.
LitSharing(i, h) == backends[i].handler = h /\ isLit(backends[i].state)

\* The writeFile calls of thread t's call, without their outcomes.
Issued(t) ==
    [i \in DOMAIN writes[t] |->
        [led |-> writes[t][i].led, attr |-> writes[t][i].attr,
         value |-> writes[t][i].value]]

IsPrefix(p, q) == Len(p) <= Len(q) /\ SubSeq(q, 1, Len(p)) = p

\* C1: a successful setLight call invokes the handler with the cached state
\* of the first backend, in construction order, that shares the updated
\* backend's handler and is lit (so ATTENTION lit, then NOTIFICATIONS lit,
\* renders ATTENTION's state).
C1_PriorityRender ==
    \A t \in Threads :
        Returned(t) /\ ret[t] = "SUCCESS" =>
            \A i \in DOMAIN backends :
                LitSharing(i, handler[t]) /\ (\A j \in 1..(i - 1) : ~LitSharing(j, handler[t]))
                    => /\ calls[t] # <<>>
                       /\ calls[t][1].state = backends[i].state

\* C2 (state part): a returned call on a type without backend has returned
\* LIGHT_NOT_SUPPORTED, invoked no handler and issued no read or write.
C2_NothingDone ==
    \A t \in Threads :
        Returned(t) /\ ~HasBackend(args[t].type) =>
            /\ ret[t] = "LIGHT_NOT_SUPPORTED"
            /\ calls[t] = <<>>
            /\ reads[t] = <<>>
            /\ writes[t] = <<>>

\* C2 (step part): no step of a setLight call on a type without backend
\* changes the backend table.
C2_CacheKept ==
    \A t \in Threads :
        /\ pc[t] \in {"lock", "body", "invoke", "write", "return"}
        /\ ~HasBackend(args[t].type)
        /\ pc'[t] # pc[t]
        => backends' = backends

\* C2: for any type that has no backend, setLight returns NotSupported,
\* leaves every cached state unchanged, invokes no handler and issues no
\* device read or write, whatever the call history.
C2_Unsupported == [] C2_NothingDone /\ [][C2_CacheKept]_vars

C2_Witness ==
    /\ Returned(1)
    /\ args[1].type = "KEYBOARD"
    /\ ret[1] = "LIGHT_NOT_SUPPORTED"
    /\ \E i \in DOMAIN backends : isLit(backends[i].state)

\* C3: when setLight turns off the only lit backend sharing a handler (RGB
\* 0, any flashMode, any timings) and max_brightness is readable, the
\* handler is invoked with the just-updated off state and the call's writes
\* leave the LED off: brightness is written 0, or the last breath write is 0.
C3_TurnsOff ==
    \A t \in Threads :
        /\ Returned(t) /\ ret[t] = "SUCCESS"
        /\ isLit(old[t]) /\ ~isLit(args[t].state)
        /\ \A i \in DOMAIN backends : ~LitSharing(i, handler[t])
        /\ \A i \in DOMAIN reads[t] : reads[t][i].result.has
        => /\ calls[t] = <<[handler |-> handler[t], state |-> args[t].state]>>
           /\ \/ \E i \in DOMAIN writes[t] :
                    writes[t][i].attr = BRIGHTNESS /\ writes[t][i].value = 0
              \/ \E i \in DOMAIN writes[t] :
                    /\ writes[t][i].attr = BREATH /\ writes[t][i].value = 0
                    /\ \A j \in (i + 1)..Len(writes[t]) : writes[t][j].attr # BREATH

\* The writes C4 names, for a state with the given timings.
TimedSequence(state) ==
    << [led |-> WHITE_LED, attr |-> BREATH, value |-> 0],
       [led |-> WHITE_LED, attr |-> DELAY_OFF, value |-> state.flashOffMs],
       [led |-> WHITE_LED, attr |-> DELAY_ON, value |-> state.flashOnMs],
       [led |-> WHITE_LED, attr |-> BREATH, value |-> 1] >>

\* A call of thread t whose one handler invocation is the notification
\* handler rendering a TIMED state with max_brightness readable.
TimedRender(t) ==
    /\ pc[t] \in {"write", "return", "ret"}
    /\ handler[t] = "handleNotification"
    /\ Len(calls[t]) = 1 /\ Len(reads[t]) = 1
    /\ calls[t][1].state.flashMode = "TIMED"
    /\ reads[t][1].result.has

\* C4: when the notification handler renders a TIMED state and
\* max_brightness is readable, the writes of the call are breath=0,
\* delay_off=flashOffMs, delay_on=flashOnMs, breath=1, in that order and
\* nothing else (no brightness write).
C4_TimedWrites ==
    \A t \in Threads :
        TimedRender(t) =>
            /\ IsPrefix(Issued(t), TimedSequence(calls[t][1].state))
            /\ pc[t] # "write" => Issued(t) = TimedSequence(calls[t][1].state)

C4_Witness ==
    /\ Returned(1) /\ TimedRender(1)
    /\ Len(writes[1]) = 4
    /\ writes[1][2].value # writes[1][3].value

\* C5 (state part): what getSupportedTypes hands to its callback, and that
\* the call invoked no handler and issued no read or write.
C5_Result ==
    \A t \in Threads :
        pc[t] = "g_ret" =>
            /\ types[t] = <<"ATTENTION", "NOTIFICATIONS", "BATTERY", "BACKLIGHT">>
            /\ calls[t] = <<>> /\ reads[t] = <<>> /\ writes[t] = <<>>

\* C5 (step part): no step of a getSupportedTypes call changes the backend
\* table.
C5_NoEffect ==
    \A t \in Threads :
        /\ \/ pc[t] \in {"g_lock", "g_push"} /\ (pc'[t] # pc[t] \/ types'[t] # types[t])
           \/ pc[t] = "idle" /\ pc'[t] \in {"g_lock", "g_push"}
        => backends' = backends

\* C5: getSupportedTypes always returns [ATTENTION, NOTIFICATIONS, BATTERY,
\* BACKLIGHT], each once and in that order, after any setLight calls and
\* under any interleaving with them; it changes no cached state and issues
\* no device write.
C5_SupportedTypes == [] C5_Result /\ [][C5_NoEffect]_vars

C5_Witness ==
    \E t, u \in Threads :
        /\ pc[t] = "g_ret"
        /\ pc[u] \in {"invoke", "write", "return", "ret"}
        /\ \E i \in DOMAIN backends : isLit(backends[i].state)

\* C6: if max_brightness of an LED cannot be opened during a setLight call
\* on a configured type, no write is issued to any attribute of that LED,
\* the cached state is still updated and the call returns Success.
C6_UnreadableMax ==
    \A t \in Threads :
        /\ Returned(t) /\ HasBackend(args[t].type)
        /\ \E i \in DOMAIN reads[t] : ~reads[t][i].result.has
        => /\ \A i \in DOMAIN reads[t] : \A k \in DOMAIN writes[t] :
                  ~reads[t][i].result.has => writes[t][k].led # reads[t][i].led
           /\ \A i \in DOMAIN backends :
                  backends[i].type = args[t].type => backends[i].state = args[t].state
           /\ ret[t] = "SUCCESS"

C6_Witness ==
    /\ Returned(1)
    /\ args[1].type = "NOTIFICATIONS" /\ args[1].state = RedTimed
    /\ reads[1] # <<>> /\ ~reads[1][1].result.has
    /\ backends[2].state = RedTimed

\* The attributes a render touches, in order, by handler and flash mode.
RenderAttrs(h, state) ==
    IF h = "handleBacklight" THEN <<BRIGHTNESS>>
    ELSE IF state.flashMode = "TIMED" THEN <<BREATH, DELAY_OFF, DELAY_ON, BREATH>>
    ELSE <<BREATH, BRIGHTNESS>>

\* C7: setLight's status depends only on whether the type is configured:
\* Success for every configured type whichever device-file opens fail, and
\* a failed write does not keep the rest of the render's writes from being
\* attempted.
C7_StatusAndWrites ==
    \A t \in Threads :
        Returned(t) =>
            /\ ret[t] = (IF args[t].type \in ConfiguredTypes
                         THEN "SUCCESS" ELSE "LIGHT_NOT_SUPPORTED")
            /\ (Len(reads[t]) = 1 /\ reads[t][1].result.has) =>
                   [i \in DOMAIN writes[t] |-> writes[t][i].attr]
                       = RenderAttrs(handler[t], calls[t][1].state)

C7_Witness ==
    /\ Returned(1) /\ ret[1] = "SUCCESS"
    /\ Len(writes[1]) = 4
    /\ ~writes[1][1].ok /\ ~writes[1][3].ok /\ writes[1][4].ok

\* C8: every setLight call on a configured type makes exactly one handler
\* invocation, by the priority scan or by the off-state fallback; a call on
\* an unconfigured type makes none.
C8_OneInvocation ==
    \A t \in Threads :
        /\ Len(calls[t]) <= 1
        /\ Returned(t) =>
              /\ pending[t] = <<>>
              /\ Len(calls[t]) = (IF args[t].type \in ConfiguredTypes THEN 1 ELSE 0)

C8_Witness ==
    /\ Returned(1) /\ impl = "cpp"
    /\ Len(calls[1]) = 1
    /\ Cardinality({i \in DOMAIN backends : LitSharing(i, handler[1])}) >= 2

\* Thread t is inside the body of setLight or getSupportedTypes.
InBody(t) == pc[t] \in {"body", "invoke", "write", "return", "ret", "g_push", "g_ret"}

\* C9: concurrent setLight and getSupportedTypes calls are serialized by
\* the lock held for the whole call: at most one call is ever inside its
\* body, so one call's device I/O never interleaves with another call's
\* cache update, table walk or device I/O.
C9_Serialized ==
    \A t, u \in Threads : InBody(t) /\ InBody(u) => t = u

\* C10: luma is (77r + 150g + 29b) >> 8 over the channels premultiplied by
\* alpha/255 (truncating) when alpha is not 0xFF, and the scaled brightness
\* is luma * maxBrightness / 255 truncating; 0xFF00FF00 with max 255 gives
\* 149 and 149, 0x8000FF00 gives luma 75.
C10_Conversion ==
    conv.done =>
        LET c == conv.color
            Pre(x) == IF c.a = 255 THEN x
                      ELSE CHOOSE q \in 0..255 : q * 255 <= x * c.a /\ x * c.a < (q + 1) * 255
            sum == 77 * Pre(c.r) + 150 * Pre(c.g) + 29 * Pre(c.b)
            prod == conv.luma * conv.maxBrightness
        IN  /\ conv.luma * 256 <= sum /\ sum < (conv.luma + 1) * 256
            /\ conv.scaled * 255 <= prod /\ prod < (conv.scaled + 1) * 255
            /\ (c = ARGB(255, 0, 255, 0) /\ conv.maxBrightness = 255)
                   => conv.luma = 149 /\ conv.scaled = 149
            /\ c = ARGB(128, 0, 255, 0) => Pre(c.g) = 128 /\ conv.luma = 75

C10_Witness ==
    /\ conv.done
    /\ conv.color = ARGB(128, 0, 255, 0)
    /\ conv.maxBrightness = 255
    /\ conv.luma = 75

\* C11 (start): every backend starts with opaque black, flash NONE, zero
\* timings.
C11_Initial ==
    \A i \in DOMAIN backends :
        backends[i].state = LightState(ARGB(255, 0, 0, 0), "NONE", 0, 0)

\* C11 (state part): a returned call on a configured type finds its state
\* in that type's backend.
C11_Latest ==
    \A t \in Threads :
        Returned(t) /\ HasBackend(args[t].type) =>
            \E i \in DOMAIN backends :
                backends[i].type = args[t].type /\ backends[i].state = args[t].state

\* C11 (step part): the cache update of a setLight call on type T gives T's
\* backend the call's state and leaves every other backend, every type and
\* handler, and the number and order of backends as they were; no other
\* step changes the table.
C11_Frame ==
    IF \E t \in Threads : pc[t] = "body" /\ pc'[t] # "body"
    THEN \A t \in Threads :
            pc[t] = "body" /\ pc'[t] # "body" =>
                /\ DOMAIN backends' = DOMAIN backends
                /\ \A i \in DOMAIN backends :
                      /\ backends'[i].type = backends[i].type
                      /\ backends'[i].handler = backends[i].handler
                      /\ backends'[i].state =
                            IF backends[i].type = args[t].type
                            THEN args[t].state ELSE backends[i].state
    ELSE backends' = backends

\* C11: each backend's cached state is the state of the most recent
\* setLight call for its type, or opaque black if there was none; setLight
\* on T changes T's cached state and nothing else of the table.
C11_CacheFollowsCalls == C11_Initial /\ [] C11_Latest /\ [][C11_Frame]_vars

C11_Witness ==
    /\ Returned(1) /\ args[1].type = "BATTERY"
    /\ backends[1].state = GreenSteady
    /\ backends[2].state = RedTimed
    /\ backends[3].state = ClearWhite
    /\ backends[4].state = OffTimed

\* The backends rendered by the notification LED, by position in the table.
NotificationGroup ==
    {i \in DOMAIN backends : backends[i].type \in {"ATTENTION", "NOTIFICATIONS", "BATTERY"}}

\* Backend i is the highest-priority lit backend of the notification group.
GroupWinner(i) ==
    /\ i \in NotificationGroup /\ isLit(backends[i].state)
    /\ \A j \in NotificationGroup : j < i => ~isLit(backends[j].state)

\* Every call has completed.
Quiescent == \A t \in Threads : pc[t] = "idle"

\* C12: under any interleaving of concurrent setLight calls, once all calls
\* have completed and at least one targeted the notification group, the
\* state last passed to the notification handler is the cached state of
\* the highest-priority lit backend of the group, when there is one.
C12_FinalRender ==
    Quiescent /\ rendered # <<>> =>
        \A i \in DOMAIN backends : GroupWinner(i) => rendered[1] = backends[i].state

\* A call of thread t whose one handler invocation is the notification
\* handler rendering a flashMode NONE state with max_brightness readable.
SteadyRender(t) ==
    /\ pc[t] \in {"write", "return", "ret"}
    /\ handler[t] = "handleNotification"
    /\ Len(calls[t]) = 1 /\ Len(reads[t]) = 1
    /\ calls[t][1].state.flashMode = "NONE"
    /\ reads[t][1].result.has

\* The writes C13 names for a steady render.
SteadySequence(state, max) ==
    << [led |-> WHITE_LED, attr |-> BREATH, value |-> 0],
       [led |-> WHITE_LED, attr |-> BRIGHTNESS,
        value |-> scaleBrightness(getBrightness(state), max)] >>

\* C13 (writes): a steady render writes breath=0, then the scaled
\* brightness, and nothing else (opaque green at max 255 gives 149).
C13_SteadyWrites ==
    \A t \in Threads :
        SteadyRender(t) =>
            LET want == SteadySequence(calls[t][1].state, reads[t][1].result.value)
            IN  /\ IsPrefix(Issued(t), want)
                /\ pc[t] # "write" => Issued(t) = want
                /\ (calls[t][1].state = GreenSteady /\ reads[t][1].result.value = 255)
                       => want[2].value = 149

\* C13 (file): when a steady render is done and its writes succeeded, the
\* breath file holds 0.
C13_BreathOff ==
    \A t \in Threads :
        /\ SteadyRender(t) /\ pc[t] # "write"
        /\ \A k \in DOMAIN writes[t] : writes[t][k].ok
        => breath = 0

\* C13 (steps): only a write of a notification render changes the breath
\* file.
C13_BreathKept ==
    breath' # breath =>
        \E t \in Threads :
            /\ pc[t] = "write" /\ handler[t] = "handleNotification"
            /\ Len(writes'[t]) = Len(writes[t]) + 1

\* C13: a steady notification render with max_brightness readable writes
\* breath=0 then brightness=scale(luma, max) and no delay; so, with writes
\* succeeding, the breath file holds 0 from the end of a steady render until
\* the next notification render.
C13_SteadyRender == [] (C13_SteadyWrites /\ C13_BreathOff) /\ [][C13_BreathKept]_vars

C13_Witness ==
    /\ Returned(1) /\ SteadyRender(1)
    /\ old[1] = RedTimed /\ args[1].state = GreenSteady
    /\ calls[1][1].state = GreenSteady
    /\ \A k \in DOMAIN writes[1] : writes[1][k].ok
    /\ Len(writes[1]) = 2 /\ writes[1][2].value = 149
    /\ breath = 0

\* color & 0x00FFFFFF of a cached state, as its three low bytes.
RGB(state) == <<state.color.r, state.color.g, state.color.b>>

\* Backend i shares handler h and has some non-zero colour byte below alpha.
RgbSharing(i, h) == backends[i].handler = h /\ RGB(backends[i].state) # <<0, 0, 0>>

\* C14: arbitration counts a cached state as lit iff its RGB bytes are not
\* all zero, whatever its alpha and flashMode: the first backend in
\* priority order with non-zero RGB is rendered even when its alpha is 0,
\* and a state with RGB 0 and flashMode TIMED is not rendered while another
\* backend sharing the handler has non-zero RGB.
C14_LitByRgb ==
    \A t \in Threads :
        Returned(t) /\ ret[t] = "SUCCESS" =>
            /\ calls[t] # <<>>
            /\ \A i \in DOMAIN backends :
                   /\ RgbSharing(i, handler[t])
                   /\ \A j \in 1..(i - 1) : ~RgbSharing(j, handler[t])
                   => calls[t][1].state = backends[i].state
            /\ (RGB(calls[t][1].state) = <<0, 0, 0>> /\ calls[t][1].state.flashMode = "TIMED")
                   => \A i \in DOMAIN backends : ~RgbSharing(i, handler[t])

\* The attributes thread t's call has read or written, as <<led, attr>>.
Touched(t) ==
    {<<reads[t][k].led, reads[t][k].attr>> : k \in DOMAIN reads[t]} \cup
    {<<writes[t][k].led, writes[t][k].attr>> : k \in DOMAIN writes[t]}

\* The states thread t's call has handed to its handler, in order.
RenderedStates(t) == [k \in DOMAIN calls[t] |-> calls[t][k].state]

\* The backend table with the cached BACKLIGHT state replaced by s.
WithBacklight(s) ==
    [i \in DOMAIN backends |->
        IF backends[i].type = "BACKLIGHT"
        THEN [backends[i] EXCEPT !.state = s] ELSE backends[i]]

\* What the arbitration of thread t's call picks from table b.
Arbitrated(b, t) ==
    IF impl = "cpp" THEN ResolveCalls(b, handler[t], args[t].state)
    ELSE <<args[t].state>>

\* C15 (backlight): a returned setLight(BACKLIGHT, s) has rendered s itself
\* through handleBacklight, touched only lcd-backlight files, and written
\* at most brightness = scale(luma(s), max).
C15_Backlight ==
    \A t \in Threads :
        Returned(t) /\ args[t].type = "BACKLIGHT" =>
            /\ ret[t] = "SUCCESS"
            /\ calls[t] = <<[handler |-> "handleBacklight", state |-> args[t].state]>>
            /\ \A a \in Touched(t) : a[1] = LCD_LED
            /\ Len(reads[t]) = 1
            /\ Issued(t) = IF reads[t][1].result.has
                           THEN <<[led |-> LCD_LED, attr |-> BRIGHTNESS,
                                   value |-> scaleBrightness(getBrightness(args[t].state),
                                                             reads[t][1].result.value)]>>
                           ELSE <<>>

\* C15 (notification): a call on ATTENTION, NOTIFICATIONS or BATTERY reads
\* and writes red-LED files only, and the state it renders is the same
\* whatever state BACKLIGHT has cached.
C15_Notification ==
    \A t \in Threads :
        /\ pc[t] \in {"invoke", "write", "return", "ret"}
        /\ args[t].type \in {"ATTENTION", "NOTIFICATIONS", "BATTERY"}
        => /\ handler[t] = "handleNotification"
           /\ \A a \in Touched(t) : a[1] = WHITE_LED
           /\ \A k \in DOMAIN calls[t] : calls[t][k].handler = "handleNotification"
           /\ Returned(t) =>
                  \A s \in LightStates : RenderedStates(t) = Arbitrated(WithBacklight(s), t)

\* C15: the backlight and the notification handler groups are isolated.
C15_Isolated == C15_Backlight /\ C15_Notification

\* A lit backlight is cached while a notification call renders an off state;
\* and a backlight call renders its off state while ATTENTION is lit.
C15_Witness ==
    /\ Returned(1)
    /\ \/ /\ args[1].type = "BATTERY" /\ args[1].state = OffSteady
          /\ backends[4].state = GreenSteady
          /\ RenderedStates(1) = <<OffSteady>>
          /\ Len(writes[1]) = 2
       \/ /\ args[1].type = "BACKLIGHT" /\ args[1].state = OffSteady
          /\ backends[1].state = GreenSteady
          /\ Len(writes[1]) = 1

\* The backend of a configured type, and the state the table caches for it.
BackendOf(type) == CHOOSE i \in DOMAIN backends : backends[i].type = type
Cached(type) == backends[BackendOf(type)].state

\* The cached state a call on `type` renders, read off the table alone:
\* Light.cpp's body takes the first lit backend sharing the type's handler
\* and the type's own cached state when none is lit; Light.h's body takes
\* the type's own cached state.
RenderFromCache(type) ==
    LET h == backends[BackendOf(type)].handler
        lit == {i \in DOMAIN backends : RgbSharing(i, h)}
    IN  IF impl = "cpp" /\ lit # {}
        THEN backends[CHOOSE i \in lit : \A j \in lit : i <= j].state
        ELSE Cached(type)

\* C16: the writes a successful setLight call has issued are a function of
\* the backend table as the call's update left it, the call's type and the
\* max_brightness value read; nothing else of the history (the state the
\* call overwrote, the state last rendered, the breath file, the outcome of
\* its writes) enters.
C16_WritesFromCache ==
    \A t \in Threads :
        Returned(t) /\ ret[t] = "SUCCESS" =>
            /\ Len(reads[t]) = 1
            /\ Issued(t) = HandlerWrites(backends[BackendOf(args[t].type)].handler,
                                         RenderFromCache(args[t].type),
                                         reads[t][1].result)

\* A call that sets the state its type already had cached, after a
\* different state was rendered last, still issues its two writes.
C16_Witness ==
    /\ Returned(1) /\ ret[1] = "SUCCESS"
    /\ args[1].type = "NOTIFICATIONS" /\ args[1].state = GreenSteady
    /\ old[1] = GreenSteady
    /\ backends[3].state = RedTimed
    /\ Len(writes[1]) = 2

\* C17: the luma of every colour is in 0..255 and is 255 only for opaque
\* white (0xFFFFFFFF); for maxBrightness in 0..255 the scaled brightness is
\* in 0..maxBrightness; and every intermediate product (channel * alpha,
\* the weighted channels and their sum, luma * maxBrightness) stays below
\* 2^31, hence within 32 unsigned bits.
C17_Ranges ==
    conv.done =>
        LET c == conv.color
            Pre(x) == IF c.a = 255 THEN x ELSE (x * c.a) \div 255
            products == {c.r * c.a, c.g * c.a, c.b * c.a,
                         77 * Pre(c.r), 150 * Pre(c.g), 29 * Pre(c.b),
                         77 * Pre(c.r) + 150 * Pre(c.g) + 29 * Pre(c.b)}
        IN  /\ conv.luma \in 0..255
            /\ conv.luma = 255 <=> c = ARGB(255, 255, 255, 255)
            /\ \A p \in products : p \in 0..2147483647
            /\ conv.maxBrightness \in 0..255 =>
                   /\ conv.scaled \in 0..conv.maxBrightness
                   /\ conv.luma * conv.maxBrightness \in 0..2147483647

C17_Witness ==
    /\ conv.done
    /\ conv.color = ARGB(255, 255, 255, 255)
    /\ conv.maxBrightness = 100
    /\ conv.luma = 255
    /\ conv.scaled = 100

====
